---- MODULE Spec2Model ----
(***************************************************************************)
(* Model of statusInfo (statusInfo-v7-udev.c, config.h): the poll loop of  *)
(* main(), the composition of the status line by udevStatus() and          *)
(* getStatusInfo(), the mixer callback and the output sink sbOut().        *)
(*                                                                         *)
(* C strings are TLA+ strings.  A char buffer of capacity n holds a string *)
(* of at most n-1 characters; a model string of n or more characters in a  *)
(* buffer of capacity n is a write past (or a missing terminator in) that  *)
(* buffer.                                                                 *)
(***************************************************************************)
EXTENDS Integers, Sequences, FiniteSets, TLC

\* ------------------------------------------------------------- config.h
STATUS_TIMEOUT == 10000
NOTIFY_TIMEOUT == 2000
MX_STATUS_CHARS == 192
MX_ELEMENT_CHARS == 32
MX_NUMBER_ELEMENTS == MX_STATUS_CHARS \div MX_ELEMENT_CHARS
BATTERY_NAME == "BAT1"
ADAPTOR_NAME == "AC"
si_separator == " "
si_alsaMonitor == <<"Master", "PCM", "Headphone", "Speaker">>
udevActions == <<"backlight", "rfkill", "power_supply">>

\* enum { none, xorg, text, dwlb }
none == 0
xorg == 1
text == 2
dwlb == 3

\* int timeout=1000; in main()
INITIAL_TIMEOUT == 1000

\* the closing line of main()
ClosingLine == "Status Bar Closed"

Slots == 0 .. (MX_NUMBER_ELEMENTS - 1)

\* ------------------------------------------------------------ C library
\* NULL pointer (a string that no sysfs attribute or name can be)
NULL == "\\NULL"

\* the first n characters of s (all of s when it is shorter)
Take(s, n) == IF Len(s) <= n THEN s ELSE IF n <= 0 THEN "" ELSE SubSeq(s, 1, n)

\* snprintf(buf, size, ...) where the formatted text is s: what buf holds
snprintf(size, s) == Take(s, size - 1)

\* strncat that appends all of src
strncat_All(dst, src, n) == dst \o src

\* strncat(dst, src, n): dst followed by at most n characters of src
strncat(dst, src, n) == dst \o Take(src, n)

\* C integer division truncates toward zero
CDiv(a, b) == IF (a >= 0) = (b > 0) THEN a \div b
              ELSE -((-a) \div b)

\* printf's %li / %d / %i
Fmt(n) == ToString(n)

\* ------------------------------------------------- config.h: udev handlers
\* A device record as libudev presents it: subsystem, action, sysname and
\* the sysfs attributes the handlers read.
\* Each handler yields [ret, info, wrote]: its return value, what the slot
\* it was given holds afterwards (old when the handler does not write) and
\* whether it wrote the slot.

backlightStatus(dev, old) ==
    LET value == CDiv(100 * dev.actual_brightness, dev.max_brightness)
    IN  [ret |-> 0,
         info |-> snprintf(MX_ELEMENT_CHARS,
                           "LCD: " \o Fmt(value) \o "%" \o si_separator),
         wrote |-> TRUE]

\* rfKillStatus that writes the slot before it reports the missing
\* attributes
rfKillStatus_WritesThenFails(dev, old) ==
    LET rfStatus == IF dev.soft # NULL \/ dev.hard # NULL
                    THEN (IF dev.soft = "0" /\ dev.hard = "0" THEN 1 ELSE 0)
                    ELSE -1
    IN  IF rfStatus = -1
        THEN [ret |-> -1, info |-> "rfkill: unknown ", wrote |-> TRUE]
        ELSE [ret |-> 0,
              info |-> snprintf(MX_ELEMENT_CHARS,
                         dev.type \o " [rfkill index:" \o dev.index \o "]: "
                         \o (IF rfStatus = 0 THEN "Off" ELSE "On")
                         \o si_separator),
              wrote |-> TRUE]

rfKillStatus(dev, old) ==
    LET rfStatus == IF dev.soft # NULL \/ dev.hard # NULL
                    THEN (IF dev.soft = "0" /\ dev.hard = "0" THEN 1 ELSE 0)
                    ELSE -1
    IN  IF rfStatus = -1
        THEN [ret |-> -1, info |-> old, wrote |-> FALSE]
        ELSE [ret |-> 0,
              info |-> snprintf(MX_ELEMENT_CHARS,
                         dev.type \o " [rfkill index:" \o dev.index \o "]: "
                         \o (IF rfStatus = 0 THEN "Off" ELSE "On")
                         \o si_separator),
              wrote |-> TRUE]

powerStatus(dev, old) ==
    IF dev.sysname = BATTERY_NAME
    THEN [ret |-> 0, info |-> "", wrote |-> TRUE]
    ELSE IF dev.sysname = ADAPTOR_NAME
    THEN [ret |-> 0,
          info |-> snprintf(MX_ELEMENT_CHARS,
                     dev.subsystem \o ": " \o dev.sysname \o ": "
                     \o (IF dev.online = "0" THEN "Unplugged" ELSE "Plugged")
                     \o si_separator),
          wrote |-> TRUE]
    ELSE [ret |-> 0,
          info |-> snprintf(MX_ELEMENT_CHARS,
                     dev.subsystem \o ": " \o dev.sysname \o ": "
                     \o dev.action \o si_separator),
          wrote |-> TRUE]

\* udevActions[i].func, i counted from 0 as in the C table
udevActionFunc(i, dev, old) ==
    CASE i = 0 -> backlightStatus(dev, old)
      [] i = 1 -> rfKillStatus(dev, old)
      [] i = 2 -> powerStatus(dev, old)

\* ------------------------------------------------------------ udevStatus
\* The C string that starts at udevDisplayInfo[i]: a slot holding
\* MX_ELEMENT_CHARS characters has no terminator, so the string runs on
\* into the next slot and, from the last slot, into `tail` further bytes
\* of the stack.
RECURSIVE Rep(_, _)
Rep(c, n) == IF n <= 0 THEN "" ELSE c \o Rep(c, n - 1)

RECURSIVE udevString(_, _, _)
udevString(info, i, tail) ==
    IF Len(info[i]) < MX_ELEMENT_CHARS THEN info[i]
    ELSE info[i] \o (IF i = MX_NUMBER_ELEMENTS - 1 THEN Rep("?", tail)
                     ELSE udevString(info, i + 1, tail))

\* for (i=0; i<LENGTH(udevActions) && i<MX_NUMBER_ELEMENTS; i++) ...
\* st: ret, the slots, the handlers called so far (their table indexes)
\* and the slots written so far
RECURSIVE udevDispatch(_, _, _)
udevDispatch(i, st, dev) ==
    IF i < Len(udevActions) /\ i < MX_NUMBER_ELEMENTS
    THEN IF udevActions[i + 1] = dev.subsystem
         THEN LET r == udevActionFunc(i, dev, st.info[i])
              IN  udevDispatch(i + 1,
                     [ret |-> r.ret,
                      info |-> [st.info EXCEPT ![i] = r.info],
                      called |-> Append(st.called, i),
                      written |-> IF r.wrote THEN Append(st.written, i)
                                  ELSE st.written], dev)
         ELSE udevDispatch(i + 1, st, dev)
    ELSE st

\* udevCompose with strcat() in place of strncat()
RECURSIVE udevCompose_strcat(_, _, _, _, _)
udevCompose_strcat(buf, info, i, j, tail) ==
    IF i < MX_NUMBER_ELEMENTS /\ j > MX_ELEMENT_CHARS
    THEN udevCompose_strcat(buf \o udevString(info, i, tail),
                            info, i + 1,
                            j - Len(udevString(info, i, tail)), tail)
    ELSE buf

\* udevCompose that stops while two slots' worth of room is still left
RECURSIVE udevCompose_EarlyStop(_, _, _, _, _)
udevCompose_EarlyStop(buf, info, i, j, tail) ==
    IF i < MX_NUMBER_ELEMENTS /\ j > 5 * MX_ELEMENT_CHARS
    THEN udevCompose_EarlyStop(strncat(buf, udevString(info, i, tail),
                                       MX_ELEMENT_CHARS),
                               info, i + 1,
                               j - Len(udevString(info, i, tail)), tail)
    ELSE buf

\* for (i=0; i<MX_NUMBER_ELEMENTS && j>MX_ELEMENT_CHARS; i++) {
\*    strncat(sBuf, udevDisplayInfo[i], MX_ELEMENT_CHARS);
\*    j-=strlen(udevDisplayInfo[i]); }
RECURSIVE udevCompose(_, _, _, _, _)
udevCompose(buf, info, i, j, tail) ==
    IF i < MX_NUMBER_ELEMENTS /\ j > MX_ELEMENT_CHARS
    THEN udevCompose(strncat(buf, udevString(info, i, tail),
                             MX_ELEMENT_CHARS),
                     info, i + 1, j - Len(udevString(info, i, tail)), tail)
    ELSE buf

\* udevStatus that calls the handlers whatever the action of the record
udevStatus_AnyAction(buf, info, dev, tail) ==
    IF dev.subsystem = NULL
    THEN [ret |-> -1, sBuf |-> buf, info |-> info, called |-> <<>>,
          written |-> <<>>]
    ELSE LET st0 == [ret |-> -1, info |-> info, called |-> <<>>,
                     written |-> <<>>]
             st1 == udevDispatch(0, st0, dev)
             fallback == st1.ret = -1
             info2 == IF fallback
                      THEN [st1.info EXCEPT ![MX_NUMBER_ELEMENTS - 1] =
                              snprintf(MX_ELEMENT_CHARS,
                                 dev.subsystem \o ": " \o dev.sysname \o ": "
                                 \o dev.action \o " ")]
                      ELSE st1.info
         IN  [ret |-> 0,
              sBuf |-> udevCompose(buf, info2, 0, MX_STATUS_CHARS, tail),
              info |-> info2,
              called |-> st1.called,
              written |-> IF fallback
                          THEN Append(st1.written, MX_NUMBER_ELEMENTS - 1)
                          ELSE st1.written]

\* udevStatus(sBuf, udevDisplayInfo, dev): [ret, sBuf, info, called,
\* written]: its return value, the two buffers afterwards, the handlers
\* it called and the slots that were written
udevStatus(buf, info, dev, tail) ==
    IF dev.subsystem = NULL
    THEN [ret |-> -1, sBuf |-> buf, info |-> info, called |-> <<>>,
          written |-> <<>>]
    ELSE LET st0 == [ret |-> -1, info |-> info, called |-> <<>>,
                     written |-> <<>>]
             st1 == IF dev.action = "change"
                    THEN udevDispatch(0, st0, dev) ELSE st0
             fallback == st1.ret = -1
             info2 == IF fallback
                      THEN [st1.info EXCEPT ![MX_NUMBER_ELEMENTS - 1] =
                              snprintf(MX_ELEMENT_CHARS,
                                 dev.subsystem \o ": " \o dev.sysname \o ": "
                                 \o dev.action \o " ")]
                      ELSE st1.info
         IN  [ret |-> 0,
              sBuf |-> udevCompose(buf, info2, 0, MX_STATUS_CHARS, tail),
              info |-> info2,
              called |-> st1.called,
              written |-> IF fallback
                          THEN Append(st1.written, MX_NUMBER_ELEMENTS - 1)
                          ELSE st1.written]

\* --------------------------------------------------------- mixer_elem_cb
SND_CTL_EVENT_MASK_VALUE == 1

\* An element as alsa-lib presents it.  swL, swR, volL, volR, min, max are
\* what the getters store; a getter that fails stores nothing, so the
\* variable keeps its initial value (-1, -1, -1, -1, 0, 1).
\* The callback yields the content of volumeLevel afterwards.
mixer_elem_cb(elem, mask, old) ==
    \* ( ! mask & SND_CTL_EVENT_MASK_VALUE): ! binds tighter than &
    IF ((IF mask = 0 THEN 1 ELSE 0) % 2) = SND_CTL_EVENT_MASK_VALUE
    THEN old
    ELSE
    LET activeL == IF elem.has_switch THEN elem.swL ELSE -1
        activeR == IF elem.has_switch
                   THEN (IF elem.switch_joined THEN activeL ELSE elem.swR)
                   ELSE -1
        min0 == IF elem.has_volume THEN elem.min ELSE 0
        max0 == IF elem.has_volume THEN elem.max ELSE 1
        volL0 == IF elem.has_volume THEN elem.volL ELSE -1
        volR0 == IF elem.has_volume
                 THEN (IF elem.volume_joined THEN volL0 ELSE elem.volR)
                 ELSE -1
        volR == volR0 - min0
        volL == volL0 - min0
        max == max0 - min0
        masterR == IF max > 0 THEN CDiv(100 * volR, max) ELSE -1
        masterL == IF max > 0 THEN CDiv(100 * volL, max) ELSE -1
        first == elem.name \o ": " \o (IF activeL = 1 THEN "" ELSE "!")
                 \o Fmt(masterL) \o "%"
        r == Len(first)
        level1 == snprintf(MX_STATUS_CHARS, first)
    IN  IF masterL # masterR \/ activeL # activeR
        THEN Take(level1, r)
             \o snprintf(MX_STATUS_CHARS - r - 1,
                         ":" \o (IF activeR = 1 THEN "" ELSE "!")
                         \o Fmt(masterR) \o "%")
        ELSE level1

\* snd_mixer_handle_events(): the callbacks it invokes, in order, each a
\* pair <<elem, mask>>; yields volumeLevel afterwards
RECURSIVE mixerCallbacks(_, _)
mixerCallbacks(cbs, level) ==
    IF cbs = <<>> THEN level
    ELSE mixerCallbacks(Tail(cbs), mixer_elem_cb(cbs[1][1], cbs[1][2], level))

\* ------------------------------------------------------------ getNetwork
\* getEthernetStatus(name, displayStatus): displayStatus afterwards
getEthernetStatus(ifa, old) ==
    CASE ifa.eth = "nosocket" -> ""
      [] ifa.eth = "ok" ->
           snprintf(16, SubSeq(ifa.name, 1, 1) \o Fmt(ifa.ifindex) \o ":"
                        \o Fmt(ifa.speed) \o "M ")
      [] ifa.eth = "nodata" -> old
      [] OTHER ->
           snprintf(16, SubSeq(ifa.name, 1, 1) \o "(" \o Fmt(ifa.ifindex)
                        \o "):err")

\* ---------------------------------------------------------------- nl80211
\* init_nl80211(nlData, w).  fail: the step that fails ("" for none);
\* resolved: what genl_ctrl_resolve() returns.  Yields the return value,
\* nlData->id and the state of nlData->socket afterwards: "none" (never
\* allocated), "freed" (nl_close() and nl_socket_free() were called on it)
\* or "open".
init_nl80211(fail, resolved) ==
    IF fail = "socket"
    THEN [ret |-> -1, id |-> -1, socket |-> "none"]
    ELSE IF fail = "connect"
    THEN [ret |-> -1, id |-> -1, socket |-> "freed"]
    ELSE IF resolved < 0
    THEN [ret |-> -1, id |-> resolved, socket |-> "freed"]
    ELSE IF fail = "callback"
    THEN [ret |-> -1, id |-> resolved, socket |-> "freed"]
    ELSE [ret |-> resolved, id |-> resolved, socket |-> "open"]

\* (int8_t) of a byte
int8_t(u) == IF u >= 128 THEN u - 256 ELSE u

\* getWifiStats_nl_cb(msg, arg): wStats->signal afterwards.  msg.sta: the
\* message has NL80211_ATTR_STA_INFO; msg.nested: nla_parse_nested()
\* succeeds; msg.sig: the byte of NL80211_STA_INFO_SIGNAL, -1 when absent
getWifiStats_nl_cb(msg, signal) ==
    IF ~msg.sta THEN signal
    ELSE IF ~msg.nested THEN signal
    ELSE IF msg.sig # -1 THEN int8_t(msg.sig)
    ELSE 0

\* the valid-message callbacks of one exchange, in the order received
RECURSIVE wlanStats_cb(_, _)
wlanStats_cb(msgs, signal) ==
    IF msgs = <<>> THEN signal
    ELSE wlanStats_cb(Tail(msgs), getWifiStats_nl_cb(Head(msgs), signal))

\* getWifiStatus(nlData, wStats).  ex: what the query meets: ex.alloc
\* (nlmsg_alloc() succeeds), ex.msgs (the valid messages nl_recvmsgs()
\* delivers), ex.finish (NL_CB_FINISH is delivered after them), ex.segv
\* (the use of the socket faults).  The result of nl_send_auto() is not
\* looked at.  (wStats->ifindex < 0 is never true of an unsigned int.)
\* Yields ret, wStats->signal afterwards and the outcome: "returned",
\* "hung" (in the while loop, wlanStatsResult still 1) or "segv".
getWifiStatus(signal, ex) ==
    IF ~ex.alloc
    THEN [ret |-> -2, signal |-> signal, outcome |-> "returned"]
    ELSE IF ex.segv
    THEN [ret |-> 0, signal |-> signal, outcome |-> "segv"]
    ELSE [ret |-> 0, signal |-> wlanStats_cb(ex.msgs, signal),
          outcome |-> IF ex.finish THEN "returned" ELSE "hung"]

\* ------------------------------------------------------------ getNetwork
\* the loop of getNetwork over the running, addressed interfaces:
\* i is the room left in displayText, ds is displayStatus, seen the names,
\* w the wireless state: signal (wStats->signal), queries (the calls of
\* getWifiStatus so far), outcome (of the last call)
RECURSIVE getNetworkLoop(_, _, _, _, _, _, _, _)
getNetworkLoop(displayText, ds, i, ifs, seen, id, w, ex) ==
    IF ifs = <<>> \/ ~(i > 0) THEN [text |-> displayText] @@ w
    ELSE LET ifa == Head(ifs)
             c == SubSeq(ifa.name, 1, 1)
         IN  IF ifa.name \in seen
             THEN getNetworkLoop(displayText, ds, i, Tail(ifs), seen, id,
                                 w, ex)
             ELSE LET ds1 == IF c = "e" \/ c = "b"
                             THEN getEthernetStatus(ifa, ds) ELSE ds
                      wifi == c = "w" /\ id >= 0
                      q == IF wifi THEN getWifiStatus(w.signal, ex)
                           ELSE [ret |-> 0, signal |-> w.signal,
                                 outcome |-> w.outcome]
                      w2 == [signal |-> q.signal,
                             queries |-> IF wifi THEN w.queries + 1
                                         ELSE w.queries,
                             outcome |-> q.outcome]
                      ds2 == IF wifi
                             THEN snprintf(16, "w" \o Fmt(ifa.ifindex) \o ":"
                                               \o Fmt(q.signal) \o "dBm ")
                             ELSE ds1
                      txt == strncat(displayText, ds2, i)
                      i2 == i - Len(ds2)
                  IN  IF q.outcome # "returned"
                      THEN [text |-> displayText] @@ w2
                      ELSE IF i2 < 0 THEN [text |-> txt] @@ w2
                      ELSE getNetworkLoop(txt, ds2, i2, Tail(ifs),
                                          seen \cup {ifa.name}, id, w2, ex)

\* getNetwork(displayText, nlData, wStats); rd.ifaddrs = -1: getifaddrs
\* failed.  Yields [text, signal, queries, outcome].
getNetwork(displayText, id, rd, signal, ex) ==
    IF rd.ifaddrs = -1
    THEN [text |-> displayText, signal |-> signal, queries |-> 0,
          outcome |-> "returned"]
    ELSE getNetworkLoop(displayText, rd.ds0, MX_ELEMENT_CHARS - 1, rd.ifs,
                        {}, id,
                        [signal |-> signal, queries |-> 0,
                         outcome |-> "returned"], ex)

\* ------------------------------------------- getTime, getSysInfo, getTmpInfo
\* getTime(buf, fmt); clk is the formatted local time, NULL when
\* localtime() fails, "" when strftime() yields 0
getTime(clk) ==
    Take(IF clk = NULL THEN snprintf(MX_ELEMENT_CHARS, "[clock error]")
         ELSE IF clk = ""
         THEN snprintf(MX_ELEMENT_CHARS, "[clock format error]")
         ELSE clk,
         MX_ELEMENT_CHARS - 1)

\* getTmpInfo(path), raw being getSysInfo(path)
getTmpInfo(raw) == IF raw # -1 THEN CDiv(raw, 1000) ELSE -1

\* --------------------------------------------------------- getStatusInfo
\* rd: what this refresh reads: capacity and power_now (getSysInfo, -1
\* when the file cannot be read), temp (getSysInfo of the thermal path),
\* clk, ifaddrs and ifs (getifaddrs: its return value and its list),
\* ds0 (the initial content of displayStatus); signal: wStats.signal
\* before; ex: what the wireless queries of this refresh meet
statusNet(rd, id, signal, ex) ==
    IF id >= 0 THEN getNetwork("", id, rd, signal, ex)
    ELSE [text |-> "", signal |-> signal, queries |-> 0,
          outcome |-> "returned"]

statusTmp(rd) ==
    snprintf(MX_ELEMENT_CHARS,
             "tmp:" \o Fmt(getTmpInfo(rd.temp)) \o "C" \o si_separator)

statusPwr(rd) ==
    LET powerNow == CDiv(rd.power_now, 1000000)
    IN  IF powerNow > 0
        THEN snprintf(MX_ELEMENT_CHARS,
                      "pwr:" \o Fmt(powerNow) \o "W" \o si_separator)
        ELSE ""

\* statusBat with the low-charge marker for capacities below 15 only
statusBat_Below15(rd) ==
    IF rd.capacity >= 15
    THEN snprintf(MX_ELEMENT_CHARS,
                  "bat:" \o Fmt(rd.capacity) \o "%" \o si_separator)
    ELSE IF rd.capacity # -1
    THEN snprintf(MX_ELEMENT_CHARS,
                  "[!]bat:" \o Fmt(rd.capacity) \o "%" \o si_separator)
    ELSE ""

statusBat(rd) ==
    IF rd.capacity > 15
    THEN snprintf(MX_ELEMENT_CHARS,
                  "bat:" \o Fmt(rd.capacity) \o "%" \o si_separator)
    ELSE IF rd.capacity # -1
    THEN snprintf(MX_ELEMENT_CHARS,
                  "[!]bat:" \o Fmt(rd.capacity) \o "%" \o si_separator)
    ELSE ""

\* yields [sBuf, signal, queries, outcome]; sBuf is old when a wireless
\* query does not return
getStatusInfo(old, rd, id, signal, ex) ==
    LET net == statusNet(rd, id, signal, ex)
    IN  [sBuf |-> IF net.outcome # "returned" THEN old
                  ELSE Take(snprintf(MX_STATUS_CHARS,
                                     net.text \o statusTmp(rd)
                                     \o statusPwr(rd) \o statusBat(rd)
                                     \o getTime(rd.clk)),
                            MX_STATUS_CHARS - 1),
         signal |-> net.signal, queries |-> net.queries,
         outcome |-> net.outcome]

\* ------------------------------------------------------- dwlbSend, sbOut
\* dwlbSend(): -1 on error or the number of bytes sent
dwlbSend(output, cmd, data, ok) ==
    IF ok THEN Len(snprintf(4096, output \o " " \o cmd \o " " \o data))
    ELSE -1

\* sbOut(outputFunction, sock_address, status): its return value; ok says
\* whether the dwlb socket accepts the message
sbOut(outputFunction, status, ok) ==
    CASE outputFunction = xorg -> 0
      [] outputFunction = text -> 0
      [] outputFunction = dwlb -> dwlbSend("all", "status", status, ok)
      [] OTHER -> -1

\* -------------------------------------------------------- dwlbSocketInit
\* the attempts of the probe loop
DWLB_PROBES == 10

\* the for loop of dwlbSocketInit(): i attempts made so far, j the result
\* of the last dwlbSend(); the socket accepts a message from attempt okAt
\* on (never when okAt = 0)
RECURSIVE dwlbProbe(_, _, _)
dwlbProbe(i, j, okAt) ==
    IF j = -1 /\ i < DWLB_PROBES
    THEN dwlbProbe(i + 1,
                   dwlbSend("all", "status", "dwl", okAt # 0 /\ i + 1 >= okAt),
                   okAt)
    ELSE [i |-> i, j |-> j]

\* dwlbSocketInit(dwlb_ref, sock_address).  xdg: XDG_RUNTIME_DIR is set.
\* Yields the return value and the number of dwlbSend() attempts.
dwlbSocketInit(xdg, okAt) ==
    IF ~xdg THEN [ret |-> -1, attempts |-> 0]
    ELSE LET p == dwlbProbe(0, -1, okAt)
         IN  [ret |-> IF p.j = -1 THEN -1 ELSE 0, attempts |-> p.i]

\* s[k-1] of a C string, "" for the terminating zero
CharAt(s, k) == IF k <= Len(s) THEN SubSeq(s, k, k) ELSE ""

\* atol() of the arguments of Args
atol(arg) ==
    CASE arg = "7" -> 7
      [] arg = " -5" -> -5
      [] OTHER -> 0

\* ------------------------------------------------------------ environment
\* What the environment can hand to the program: bounded, representative
\* sets of device records, mixer events, sysfs readings and poll results.

\* bytes of stack after udevDisplayInfo before the next zero byte
MaxStackTail == 1
StackTails == 0 .. MaxStackTail

\* what the uninitialised array udevDisplayInfo of main() may hold at
\* start: each slot zeroed, a terminated string of the greatest length, or
\* MX_ELEMENT_CHARS bytes without terminator
UninitSlot == {"", Rep("#", MX_ELEMENT_CHARS - 1),
               Rep("#", MX_ELEMENT_CHARS)}
UninitInfo == {[i \in Slots |-> g] : g \in UninitSlot}

\* the uninitialised locals of main() that are read before they are
\* written, udevDisplayInfo and wStats.signal: a zeroed stack or a used one
UninitStack ==
    {[info |-> u, signal |-> IF u[0] = "" THEN 0 ELSE 99] : u \in UninitInfo}

\* argv[1]: absent, -t, an option that is not -t, a socket number, a
\* negative number (atol() skips the blank; a leading '-' is an option)
Args == {"", "-t", "-h", "7", " -5"}

\* the attempt from which on the dwlb socket accepts a message: never,
\* the first, the last of the probe, one later
ReachableAt == {0, 1, DWLB_PROBES, DWLB_PROBES + 1}

Dev(sub, act, name, ab, mb, ty, ix, so, ha, on) ==
    [subsystem |-> sub, action |-> act, sysname |-> name,
     actual_brightness |-> ab, max_brightness |-> mb,
     type |-> ty, index |-> ix, soft |-> so, hard |-> ha, online |-> on]

Devices ==
    { Dev("backlight", "change", "intel_backlight", 50, 100,
          NULL, NULL, NULL, NULL, NULL),
      Dev("rfkill", "change", "rfkill1", 0, 0, "bluetooth", "1", "1", "0",
          NULL),
      Dev("power_supply", "change", ADAPTOR_NAME, 0, 0,
          NULL, NULL, NULL, NULL, "1"),
      Dev("power_supply", "change", BATTERY_NAME, 0, 0,
          NULL, NULL, NULL, NULL, NULL),
      Dev("power_supply", "add", ADAPTOR_NAME, 0, 0,
          NULL, NULL, NULL, NULL, "1"),
      Dev(NULL, "change", "unknown", 0, 0, NULL, NULL, NULL, NULL, NULL) }

\* udev_monitor_receive_device() returning NULL
NoDevice == Dev(NULL, NULL, NULL, 0, 0, NULL, NULL, NULL, NULL, NULL)
Received == Devices \cup {NoDevice}

Elem(name, hs, sj, sl, sr, hv, vj, mn, mx, vl, vr) ==
    [name |-> name, has_switch |-> hs, switch_joined |-> sj, swL |-> sl,
     swR |-> sr, has_volume |-> hv, volume_joined |-> vj, min |-> mn,
     max |-> mx, volL |-> vl, volR |-> vr]

Elems ==
    { Elem("Master", TRUE, TRUE, 1, 1, TRUE, TRUE, 0, 64, 32, 32) }

\* snd_mixer_handle_events(): its return value and the callbacks it ran
MixerResults ==
    {[ret |-> 0, cbs |-> <<>>], [ret |-> -1, cbs |-> <<>>]}
    \cup {[ret |-> 0, cbs |-> <<<<e, SND_CTL_EVENT_MASK_VALUE>>>>] : e \in Elems}

Iface(name, ix, eth, speed) ==
    [name |-> name, ifindex |-> ix, eth |-> eth, speed |-> speed]

\* a valid message of an exchange
Msg(sta, nested, sig) == [sta |-> sta, nested |-> nested, sig |-> sig]

\* what one wireless query meets
Ex(alloc, send, msgs, finish, segv) ==
    [alloc |-> alloc, send |-> send, msgs |-> msgs, finish |-> finish,
     segv |-> segv]

\* the exchanges on an open socket: two stations' signal bytes (-70 and
\* -60 dBm); nothing but NL_CB_FINISH; a message without station info and
\* one whose nested attributes do not parse; station info without a
\* signal attribute; nlmsg_alloc() failing; nl_send_auto() failing, after
\* which no reply and no NL_CB_FINISH ever arrives
Exchanges ==
    { Ex(TRUE, TRUE, <<Msg(TRUE, TRUE, 186), Msg(TRUE, TRUE, 196)>>, TRUE,
         FALSE),
      Ex(TRUE, TRUE, <<>>, TRUE, FALSE),
      Ex(TRUE, TRUE, <<Msg(FALSE, FALSE, -1), Msg(TRUE, FALSE, -1)>>, TRUE,
         FALSE),
      Ex(TRUE, TRUE, <<Msg(TRUE, TRUE, -1)>>, TRUE, FALSE),
      Ex(FALSE, FALSE, <<>>, FALSE, FALSE),
      Ex(TRUE, FALSE, <<>>, FALSE, FALSE) }

\* a query on a socket that was closed and freed: the calls fail on the
\* closed descriptor and NL_CB_FINISH never arrives, or the access to the
\* freed memory faults
UseAfterFree ==
    { Ex(TRUE, FALSE, <<>>, FALSE, FALSE), Ex(TRUE, FALSE, <<>>, FALSE, TRUE) }

\* no query is made
NoExchange == Ex(TRUE, TRUE, <<>>, TRUE, FALSE)

\* what one periodic refresh reads
Reading(cap, pwr, tmp, clk, ret, ifs, ds0) ==
    [capacity |-> cap, power_now |-> pwr, temp |-> tmp, clk |-> clk,
     ifaddrs |-> ret, ifs |-> ifs, ds0 |-> ds0]

Readings ==
    { Reading(-1, 12000000, 45000, "06-11-2026 09:12", 0, <<>>, ""),
      Reading(50, 12000000, 45000, "06-11-2026 09:12", 0,
              <<Iface("eth0", 2, "ok", 1000), Iface("wlan0", 3, "", 0),
                Iface("wlan0", 3, "", 0)>>, "") }

\* no refresh was made
NoReadings ==
    [capacity |-> -1, power_now |-> -1, temp |-> -1, clk |-> NULL,
     ifaddrs |-> -1, ifs |-> <<>>, ds0 |-> ""]

\* revents of the three descriptors with POLLERR or POLLNVAL ("ERR") on
\* one of them, alone or beside a readable one
ErrEvents == {<<"ERR", "", "">>, <<"", "ERR", "">>, <<"", "", "ERR">>,
              <<"IN", "", "ERR">>, <<"ERR", "IN", "">>}

\* ------------------------------------------------------------------ state
VARIABLES
    pc,               \* "start", "poll" (about to call poll), "wifi" (in
                      \* the loop of getWifiStatus), "crashed" (killed
                      \* by a fault), "done" (returned from main)
    exitCode,         \* the value main() returned, -1 while running
    timeout,          \* int timeout
    outputFunction,   \* int outputFunction
    nlData_id,        \* nlData.id
    nlData_socket,    \* nlData.socket: "none", "freed", "open", "freed twice"
    wStats_signal,    \* wStats.signal
    wifi,             \* the wireless queries of the last step
    udevDisplayInfo,  \* char udevDisplayInfo[MX_NUMBER_ELEMENTS][MX_ELEMENT_CHARS]
    sBuf,             \* char sBuf[MX_STATUS_CHARS]
    volumeLevel,      \* static char volumeLevel[MX_STATUS_CHARS]
    polled,           \* the last poll(): the timeout it was called with,
                      \* its return value and the revents
    composed,         \* sBuf at line 837 of the last iteration ("" when
                      \* the iteration did not get there)
    drained,          \* what the drains of the last iteration returned
    sent,             \* the lines handed to sbOut() by the last step
    sinkRet,          \* the return value of the last sbOut() of the loop
    refreshed         \* the readings of the last step's getStatusInfo()

vars == <<pc, exitCode, timeout, outputFunction, nlData_id, nlData_socket,
          wStats_signal, wifi, udevDisplayInfo,
          sBuf, volumeLevel, polled, composed, drained, sent, sinkRet,
          refreshed>>

NoPoll == [called |-> FALSE, timeout |-> 0, ret |-> 0, udev |-> "",
           sig |-> "", mix |-> ""]
Polled(ret, u, s, m) ==
    [called |-> TRUE, timeout |-> timeout, ret |-> ret, udev |-> u,
     sig |-> s, mix |-> m]
NoDrain ==
    [udev |-> "notready", dev |-> NoDevice, tail |-> 0, called |-> <<>>,
     written |-> <<>>, mixer |-> "notready", cbs |-> <<>>]
Line(kind, str) == [kind |-> kind, line |-> str]
NoWifi ==
    [queries |-> 0, ex |-> NoExchange, before |-> 0, outcome |-> "returned",
     recvFailed |-> FALSE]

\* the step makes no refresh
NoRefresh ==
    /\ refreshed' = NoReadings
    /\ wifi' = NoWifi
    /\ wStats_signal' = wStats_signal

\* main() up to its first statement: locals are uninitialised, the static
\* volumeLevel is zeroed; sBuf is written before it is ever read
Init ==
    /\ pc = "start"
    /\ exitCode = -1
    /\ timeout = INITIAL_TIMEOUT
    /\ outputFunction = none
    /\ nlData_id = -1
    /\ nlData_socket = "none"
    /\ \E st \in UninitStack :
           udevDisplayInfo = st.info /\ wStats_signal = st.signal
    /\ wifi = NoWifi
    /\ sBuf = ""
    /\ volumeLevel = ""
    /\ polled = NoPoll
    /\ composed = ""
    /\ drained = NoDrain
    /\ sent = <<>>
    /\ sinkRet = 0
    /\ refreshed = NoReadings

\* Startup as it would be if main() returned 0 where it returns 1
Startup_ReturnsZero ==
    /\ pc = "start"
    /\ pc' = "done"
    /\ exitCode' = 0
    /\ sent' = <<Line("stderr", "Usage")>>
    /\ UNCHANGED <<timeout, outputFunction, nlData_id, nlData_socket,
                   udevDisplayInfo, sBuf, volumeLevel, polled, composed,
                   drained, sinkRet, refreshed, wifi, wStats_signal>>

\* lines 855-869, after the loop: release everything, hand the closing
\* line to the sink (its result is ignored) and return 0.  lines: what
\* the step has handed to the sink so far.
\* id, socket: nlData.id and the state of nlData.socket before.  With
\* id >= 0 the socket is closed and freed (lines 861-865), also when
\* init_nl80211() had freed it already ("freed twice"): the second free
\* kills the process ("crashed") or goes unnoticed.
ShutdownWith(lines, id, socket) ==
    IF id >= 0 /\ socket = "freed"
    THEN /\ nlData_socket' = "freed twice"
         /\ \/ /\ pc' = "crashed"
               /\ sent' = lines
               /\ exitCode' = exitCode
            \/ /\ pc' = "done"
               /\ sent' = Append(lines, Line("closing", ClosingLine))
               /\ exitCode' = 0
    ELSE /\ nlData_socket' = IF id >= 0 THEN "freed" ELSE socket
         /\ sent' = Append(lines, Line("closing", ClosingLine))
         /\ pc' = "done"
         /\ exitCode' = 0

Shutdown(lines) == ShutdownWith(lines, nlData_id, nlData_socket)

\* main() from its arguments to the loop (lines 635-785).  arg: argv[1]
\* ("" when absent); display: XOpenDisplay() succeeded; xdg, okAt: what
\* dwlbSocketInit() meets; nlFail, resolved: what init_nl80211() meets;
\* signal_fd: what signalfd() returned.  A run that returns 1 leaves in
\* `sent` the probe messages and the error printed on stderr; the others
\* the probe messages.  The device-change and the mixer
\* source are taken to be set up: a source that is not polled only removes
\* behaviours.
Startup ==
    /\ pc = "start"
    /\ \E arg \in Args, display \in BOOLEAN, xdg \in BOOLEAN,
          okAt \in ReachableAt,
          nlFail \in {"", "socket", "connect", "callback"},
          resolved \in {-1, 28}, signal_fd \in {-1, 5} :
        LET nl == init_nl80211(nlFail, resolved)
            option == CharAt(arg, 1) = "-"
            socketArg == arg # "" /\ ~option
            dwlbSocketId == IF socketArg THEN atol(arg) ELSE -1
            probe == IF socketArg /\ dwlbSocketId >= 0
                     THEN dwlbSocketInit(xdg, okAt)
                     ELSE [ret |-> 0, attempts |-> 0]
            probes == [k \in 1 .. probe.attempts |->
                         Line(IF probe.ret = 0 /\ k = probe.attempts
                              THEN "probe" ELSE "probe failed", "dwl")]
            error == CASE MX_NUMBER_ELEMENTS < 1 -> "MX_NUMBER_ELEMENTS < 1"
                       [] option -> "Usage"
                       [] socketArg /\ dwlbSocketId < 0 -> "Invalid socket ID"
                       [] ~xdg -> "Could not retrieve XDG_RUNTIME_DIR"
                       [] OTHER -> "Could not comminicate with dwlb"
            misconfigured == \/ MX_NUMBER_ELEMENTS < 1
                             \/ option /\ CharAt(arg, 2) # "t"
                             \/ socketArg /\ dwlbSocketId < 0
                             \/ socketArg /\ probe.ret = -1
        IN  /\ arg = "" \/ option \/ dwlbSocketId < 0 =>
                  (xdg /\ okAt = 1)
            /\ ~xdg => okAt = 1
            /\ outputFunction' =
                 (CASE misconfigured -> none
                    [] option -> text
                    [] socketArg -> dwlb
                    [] display -> xorg
                    [] OTHER -> text)
            /\ nlData_id' = IF misconfigured THEN nlData_id ELSE nl.id
            /\ IF misconfigured
               THEN /\ pc' = "done"
                    /\ exitCode' = 1
                    /\ sent' = Append(probes, Line("stderr", error))
                    /\ nlData_socket' = nlData_socket
               ELSE IF signal_fd < 0
               THEN \* exit_request=1: the loop is skipped
                    ShutdownWith(probes, nl.id, nl.socket)
               ELSE /\ pc' = "poll"
                    /\ exitCode' = exitCode
                    /\ sent' = probes
                    /\ nlData_socket' = nl.socket
    /\ UNCHANGED <<timeout, udevDisplayInfo, sBuf, volumeLevel, polled,
                   composed, drained, sinkRet, refreshed, wifi,
                   wStats_signal>>

\* whether the sink can fail: only dwlbSend() returns -1
SinkOks == IF outputFunction = dwlb THEN BOOLEAN ELSE {TRUE}

\* the exchanges the wireless queries of a refresh can meet
ExchangesFor(rd) ==
    IF nlData_id >= 0 /\ rd.ifaddrs # -1
       /\ \E k \in 1 .. Len(rd.ifs) : SubSeq(rd.ifs[k].name, 1, 1) = "w"
    THEN (IF nlData_socket = "open" THEN Exchanges ELSE UseAfterFree)
    ELSE {NoExchange}

\* Refresh with the assignment to timeout left out
Refresh_NoTimeout(buf, rd, ex, ok) ==
    \E r \in {getStatusInfo(buf, rd, nlData_id, wStats_signal, ex)} :
        /\ udevDisplayInfo' = [i \in Slots |-> ""]
        /\ sBuf' = r.sBuf
        /\ refreshed' = rd
        /\ wStats_signal' = r.signal
        /\ wifi' = [queries |-> r.queries, ex |-> ex,
                    before |-> wStats_signal, outcome |-> r.outcome,
                    recvFailed |-> FALSE]
        /\ IF r.outcome # "returned"
           THEN /\ pc' = IF r.outcome = "hung" THEN "wifi" ELSE "crashed"
                /\ sent' = <<>>
                /\ UNCHANGED <<sinkRet, timeout, exitCode, nlData_socket>>
           ELSE \E ret \in {sbOut(outputFunction, r.sBuf, ok)} :
                /\ sinkRet' = ret
                /\ IF ret = -1
                   THEN /\ timeout' = timeout
                        /\ Shutdown(<<Line("periodic", r.sBuf)>>)
                   ELSE /\ timeout' = timeout
                        /\ sent' = <<Line("periodic", r.sBuf)>>
                        /\ pc' = "poll"
                        /\ exitCode' = exitCode
                        /\ nlData_socket' = nlData_socket

\* lines 844-852: clear the slots, getStatusInfo(), sbOut(), timeout.
\* buf: sBuf before.  A wireless query that does not return leaves the
\* process inside getWifiStatus() ("wifi") or killed ("crashed").
Refresh(buf, rd, ex, ok) ==
    \E r \in {getStatusInfo(buf, rd, nlData_id, wStats_signal, ex)} :
        /\ udevDisplayInfo' = [i \in Slots |-> ""]
        /\ sBuf' = r.sBuf
        /\ refreshed' = rd
        /\ wStats_signal' = r.signal
        /\ wifi' = [queries |-> r.queries, ex |-> ex,
                    before |-> wStats_signal, outcome |-> r.outcome,
                    recvFailed |-> FALSE]
        /\ IF r.outcome # "returned"
           THEN /\ pc' = IF r.outcome = "hung" THEN "wifi" ELSE "crashed"
                /\ sent' = <<>>
                /\ UNCHANGED <<sinkRet, timeout, exitCode, nlData_socket>>
           ELSE \E ret \in {sbOut(outputFunction, r.sBuf, ok)} :
                /\ sinkRet' = ret
                /\ IF ret = -1
                   THEN /\ timeout' = timeout
                        /\ Shutdown(<<Line("periodic", r.sBuf)>>)
                   ELSE /\ timeout' = STATUS_TIMEOUT
                        /\ sent' = <<Line("periodic", r.sBuf)>>
                        /\ pc' = "poll"
                        /\ exitCode' = exitCode
                        /\ nlData_socket' = nlData_socket

\* Notify with the periodic timeout set after an event line
Notify_Periodic(buf, info, ok) ==
    \E ret \in {sbOut(outputFunction, buf, ok)} :
        /\ sBuf' = buf
        /\ udevDisplayInfo' = info
        /\ sinkRet' = ret
        /\ NoRefresh
        /\ IF ret = -1
           THEN timeout' = timeout /\ Shutdown(<<Line("event", buf)>>)
           ELSE /\ timeout' = STATUS_TIMEOUT
                /\ sent' = <<Line("event", buf)>>
                /\ pc' = "poll"
                /\ exitCode' = exitCode
                /\ nlData_socket' = nlData_socket

\* Notify with the assignment to timeout left out
Notify_NoTimeout(buf, info, ok) ==
    \E ret \in {sbOut(outputFunction, buf, ok)} :
        /\ sBuf' = buf
        /\ udevDisplayInfo' = info
        /\ sinkRet' = ret
        /\ NoRefresh
        /\ timeout' = timeout
        /\ IF ret = -1
           THEN Shutdown(<<Line("event", buf)>>)
           ELSE /\ sent' = <<Line("event", buf)>>
                /\ pc' = "poll"
                /\ exitCode' = exitCode
                /\ nlData_socket' = nlData_socket

\* Notify with the result of sbOut() ignored
Notify_IgnoresSink(buf, info, ok) ==
    \E ret \in {sbOut(outputFunction, buf, ok)} :
        /\ sBuf' = buf
        /\ udevDisplayInfo' = info
        /\ sinkRet' = ret
        /\ NoRefresh
        /\ timeout' = NOTIFY_TIMEOUT
        /\ sent' = <<Line("event", buf)>>
        /\ pc' = "poll"
        /\ exitCode' = exitCode
        /\ nlData_socket' = nlData_socket

\* Notify without the continue of line 841: the iteration goes on into
\* the periodic refresh
Notify_FallsThrough(buf, info, ok) ==
    \E rd \in Readings :
    \E ex \in ExchangesFor(rd) :
    \E r \in {getStatusInfo(buf, rd, nlData_id, wStats_signal, ex)} :
        /\ udevDisplayInfo' = [i \in Slots |-> ""]
        /\ sBuf' = r.sBuf
        /\ refreshed' = rd
        /\ wStats_signal' = r.signal
        /\ wifi' = [queries |-> r.queries, ex |-> ex,
                    before |-> wStats_signal, outcome |-> "returned",
                    recvFailed |-> FALSE]
        /\ sinkRet' = 0
        /\ timeout' = STATUS_TIMEOUT
        /\ sent' = <<Line("event", buf), Line("periodic", r.sBuf)>>
        /\ pc' = "poll"
        /\ exitCode' = exitCode
        /\ nlData_socket' = nlData_socket

\* lines 837-842: hand the event line to the sink, timeout, continue
Notify(buf, info, ok) ==
    \E ret \in {sbOut(outputFunction, buf, ok)} :
        /\ sBuf' = buf
        /\ udevDisplayInfo' = info
        /\ sinkRet' = ret
        /\ NoRefresh
        /\ IF ret = -1
           THEN timeout' = timeout /\ Shutdown(<<Line("event", buf)>>)
           ELSE /\ timeout' = NOTIFY_TIMEOUT
                /\ sent' = <<Line("event", buf)>>
                /\ pc' = "poll"
                /\ exitCode' = exitCode
                /\ nlData_socket' = nlData_socket

\* poll() returns 0
PollTimeout ==
    /\ pc = "poll"
    /\ \E rd \in Readings, ok \in SinkOks :
       \E ex \in ExchangesFor(rd) :
        /\ Refresh(sBuf, rd, ex, ok)
        /\ polled' = Polled(0, "", "", "")
        /\ composed' = ""
        /\ drained' = NoDrain
    /\ UNCHANGED <<outputFunction, nlData_id, volumeLevel>>

\* poll() returns a negative value (line 792)
PollFail ==
    /\ pc = "poll"
    /\ polled' = Polled(-1, "", "", "")
    /\ composed' = ""
    /\ drained' = NoDrain
    /\ NoRefresh
    /\ Shutdown(<<>>)
    /\ UNCHANGED <<timeout, outputFunction, nlData_id,
                   udevDisplayInfo, sBuf, volumeLevel, sinkRet>>

\* poll() reports POLLERR or POLLNVAL on a descriptor (lines 794-797)
PollRevErr ==
    /\ pc = "poll"
    /\ \E r \in ErrEvents : polled' = Polled(1, r[1], r[2], r[3])
    /\ composed' = ""
    /\ drained' = NoDrain
    /\ NoRefresh
    /\ Shutdown(<<>>)
    /\ UNCHANGED <<timeout, outputFunction, nlData_id,
                   udevDisplayInfo, sBuf, volumeLevel, sinkRet>>

\* DrainUdev with a fragment written for a failed receive
DrainUdev_ErrorFragment(u, dev, tail) ==
    IF u = "IN" /\ dev # NoDevice
    THEN LET r == udevStatus("", udevDisplayInfo, dev, tail)
         IN  [sBuf |-> r.sBuf, info |-> r.info, udev |-> "ok", dev |-> dev,
              tail |-> tail, called |-> r.called, written |-> r.written]
    ELSE [sBuf |-> IF u = "IN" THEN "udev: error " ELSE "",
          info |-> udevDisplayInfo,
          udev |-> IF u = "IN" THEN "failed" ELSE "notready",
          dev |-> NoDevice, tail |-> 0, called |-> <<>>, written |-> <<>>]

\* lines 801-809: the device-change source is drained when it is ready;
\* yields [sBuf, info, udev, dev, tail, called, written]
DrainUdev(u, dev, tail) ==
    IF u = "IN" /\ dev # NoDevice
    THEN LET r == udevStatus("", udevDisplayInfo, dev, tail)
         IN  [sBuf |-> r.sBuf, info |-> r.info, udev |-> "ok", dev |-> dev,
              tail |-> tail, called |-> r.called, written |-> r.written]
    ELSE [sBuf |-> "", info |-> udevDisplayInfo,
          udev |-> IF u = "IN" THEN "failed" ELSE "notready",
          dev |-> NoDevice, tail |-> 0, called |-> <<>>, written |-> <<>>]

\* the stack bytes that matter: only an unterminated last slot reads them
TailsFor(info) ==
    IF Len(info[MX_NUMBER_ELEMENTS - 1]) >= MX_ELEMENT_CHARS
    THEN StackTails ELSE {0}

\* LeaveOnSignal with the signal looked at only after the event line of
\* the iteration was handed to the sink
LeaveOnSignal_AfterEmit(d) ==
    /\ sBuf' = d.sBuf
    /\ udevDisplayInfo' = d.info
    /\ composed' = d.sBuf
    /\ volumeLevel' = ""
    /\ NoRefresh
    /\ Shutdown(IF d.sBuf # "" THEN <<Line("event", d.sBuf)>> ELSE <<>>)
    /\ UNCHANGED <<timeout, sinkRet>>

\* lines 811-816: the signal descriptor is readable: break
LeaveOnSignal(d) ==
    /\ sBuf' = d.sBuf
    /\ udevDisplayInfo' = d.info
    /\ composed' = ""
    /\ volumeLevel' = ""
    /\ NoRefresh
    /\ Shutdown(<<>>)
    /\ UNCHANGED <<timeout, sinkRet>>

\* poll() reports the signal descriptor readable (lines 798-816): the
\* device-change source is drained first, then the loop is left
PollSignal ==
    /\ pc = "poll"
    /\ \E u \in {"", "IN"}, m \in {"", "IN"}, dev \in Received,
          tail \in TailsFor(udevDisplayInfo) :
        /\ u = "" => dev = NoDevice
        /\ \E d \in {DrainUdev(u, dev, tail)} :
               /\ drained' = [udev |-> d.udev, dev |-> d.dev, tail |-> d.tail,
                              called |-> d.called, written |-> d.written,
                              mixer |-> "notready", cbs |-> <<>>]
               /\ LeaveOnSignal(d)
        /\ polled' = Polled(1, u, "IN", m)
    /\ UNCHANGED <<outputFunction, nlData_id>>

\* poll() reports the device-change or the mixer source readable, no
\* error and no signal (lines 798-852)
PollSources ==
    /\ pc = "poll"
    /\ \E u \in {"", "IN"}, m \in {"", "IN"}, dev \in Received,
          mr \in MixerResults, tail \in TailsFor(udevDisplayInfo) :
        /\ "IN" \in {u, m}
        /\ u = "" => dev = NoDevice
        /\ m = "" => mr = [ret |-> 0, cbs |-> <<>>]
        /\ \E d \in {DrainUdev(u, dev, tail)},
              level \in {IF m = "IN" THEN mixerCallbacks(mr.cbs, "")
                         ELSE ""} :
           \E buf \in {IF m = "IN" /\ mr.ret >= 0
                        THEN snprintf(MX_STATUS_CHARS, level) ELSE d.sBuf} :
               /\ volumeLevel' = level
               /\ polled' = Polled(1, u, "", m)
               /\ drained' = [udev |-> d.udev, dev |-> d.dev, tail |-> d.tail,
                              called |-> d.called, written |-> d.written,
                              mixer |-> IF m = "" THEN "notready"
                                        ELSE IF mr.ret < 0 THEN "failed"
                                        ELSE "ok",
                              cbs |-> mr.cbs]
               /\ composed' = buf
               /\ IF buf # ""
                  THEN \E ok \in SinkOks : Notify(buf, d.info, ok)
                  ELSE \E rd \in Readings, ok \in SinkOks :
                       \E ex \in ExchangesFor(rd) :
                          Refresh(buf, rd, ex, ok)
    /\ UNCHANGED <<outputFunction, nlData_id>>

\* lines 193-194, inside getWifiStatus(): wlanStatsResult is still 1 and
\* nl_recvmsgs() returns an error without NL_CB_FINISH; the loop calls
\* it again
WifiRecv ==
    /\ pc = "wifi"
    /\ wifi' = [wifi EXCEPT !.recvFailed = TRUE]
    /\ UNCHANGED <<pc, exitCode, timeout, outputFunction, nlData_id,
                   nlData_socket, wStats_signal, udevDisplayInfo, sBuf,
                   volumeLevel, polled, composed, drained, sent, sinkRet,
                   refreshed>>

Next ==
    \/ Startup
    \/ WifiRecv
    \/ PollTimeout
    \/ PollFail
    \/ PollRevErr
    \/ PollSignal
    \/ PollSources

Spec == Init /\ [][Next]_vars

\* ------------------------------------------------------------- producers
\* The fragment producers on their own, over wider inputs than the loop
\* is run with: udevStatus() called record after record on the slots as
\* the calls before left them, mixer_elem_cb() and getStatusInfo() called
\* once.

\* device records: those of Devices, an rfkill record without attributes,
\* a subsystem that is not in udevActions, a remove event, a second
\* battery and an add event of an unlisted subsystem
WideDevices ==
    Devices \cup
    { Dev("rfkill", "change", "rfkill2", 0, 0, NULL, NULL, NULL, NULL, NULL),
      Dev("foo", "change", "bar", 0, 0, NULL, NULL, NULL, NULL, NULL),
      Dev("backlight", "remove", "intel_backlight", 50, 100,
          NULL, NULL, NULL, NULL, NULL),
      Dev("power_supply", "change", "BAT0", 0, 0,
          NULL, NULL, NULL, NULL, NULL),
      Dev("usb", "add", "0000:00:14.0-usb1-1.4.2:1.0", 0, 0,
          NULL, NULL, NULL, NULL, NULL) }

\* mixer elements: those of Elems; PCM with the right channel lower and
\* muted; PCM with a volume and no switch; Headphone without switch and volume; Speaker, the right
\* channel on, whose volume getters fail on a range far from zero; an element with a long name
WideElems ==
    Elems \cup
    { Elem("PCM", TRUE, FALSE, 1, 0, TRUE, FALSE, 0, 255, 255, 128),
      Elem("PCM", FALSE, FALSE, -1, -1, TRUE, TRUE, 0, 255, 128, 128),
      Elem("Headphone", FALSE, FALSE, -1, -1, FALSE, FALSE, 0, 1, -1, -1),
      Elem("Speaker", TRUE, FALSE, 0, 1, TRUE, FALSE, 100000, 100001,
           -1, -1),
      Elem("Headphone Playback Front Jack", TRUE, FALSE, 0, 0, TRUE, FALSE,
           0, 64, 64, 32) }

\* the event masks a callback is called with
EventMasks == {0, SND_CTL_EVENT_MASK_VALUE, 2}

Capacities == {-1, 0, 10, 15, 16, 50, 100}
PowerNows == {-1, 900000, 12000000}
Temps == {-1, 45000}
Clocks == {"06-11-2026 09:12", NULL}

\* getifaddrs(): its list and the content of displayStatus before: no
\* interface; ethernet and a wireless one listed twice; five ethernet
\* interfaces; an interface that is none of e, b, w with displayStatus
\* zeroed, holding a string, or holding 16 bytes without terminator and
\* 4 more before the next zero byte
IfaceCases ==
    { [ifs |-> <<>>, ds0 |-> ""],
      [ifs |-> <<Iface("eth0", 2, "ok", 1000), Iface("wlan0", 3, "", 0),
                 Iface("wlan0", 3, "", 0)>>, ds0 |-> ""],
      [ifs |-> <<Iface("eth0", 2, "ok", 1000), Iface("eth1", 3, "ok", 100),
                 Iface("eth2", 4, "err", 0), Iface("br0", 5, "ok", 10000),
                 Iface("eth3", 6, "ok", 1000)>>, ds0 |-> ""],
      [ifs |-> <<Iface("usb0", 7, "", 0), Iface("usb1", 8, "", 0)>>,
       ds0 |-> ""],
      [ifs |-> <<Iface("usb0", 7, "", 0), Iface("usb1", 8, "", 0)>>,
       ds0 |-> Rep("#", 15)],
      [ifs |-> <<Iface("usb0", 7, "", 0), Iface("usb1", 8, "", 0)>>,
       ds0 |-> Rep("#", 20)] }

WideReadings ==
    {Reading(c, p, t, clk, 0, n.ifs, n.ds0) :
        c \in Capacities, p \in PowerNows, t \in Temps, clk \in Clocks,
        n \in IfaceCases}

\* the producer the steps call
ProducerInit ==
    /\ pc \in {"udev", "status", "volume"}
    /\ exitCode = -1
    /\ timeout = INITIAL_TIMEOUT
    /\ outputFunction = text
    /\ \E nl \in {init_nl80211("", 28), init_nl80211("socket", 28)} :
           nlData_id = nl.id /\ nlData_socket = nl.socket
    /\ \E st \in UninitStack :
           udevDisplayInfo = st.info /\ wStats_signal = st.signal
    /\ wifi = NoWifi
    /\ sBuf = ""
    /\ volumeLevel = ""
    /\ polled = NoPoll
    /\ composed = ""
    /\ drained = NoDrain
    /\ sent = <<>>
    /\ sinkRet = 0
    /\ refreshed = NoReadings

\* lines 798-809 for one received record: sBuf[0]=0, udevStatus()
ProduceUdev ==
    /\ pc = "udev"
    /\ \E dev \in WideDevices, tail \in TailsFor(udevDisplayInfo) :
       \E d \in {DrainUdev("IN", dev, tail)} :
           /\ udevDisplayInfo' = d.info
           /\ sBuf' = d.sBuf
           /\ composed' = d.sBuf
           /\ drained' = [udev |-> d.udev, dev |-> d.dev, tail |-> d.tail,
                          called |-> d.called, written |-> d.written,
                          mixer |-> "notready", cbs |-> <<>>]
    /\ polled' = Polled(1, "IN", "", "")
    /\ NoRefresh
    /\ UNCHANGED <<pc, exitCode, timeout, outputFunction, nlData_id,
                   nlData_socket, volumeLevel, sent, sinkRet>>

\* lines 799 and 818-834 for one callback of snd_mixer_handle_events()
ProduceVolume ==
    /\ pc = "volume"
    /\ \E elem \in WideElems, mask \in EventMasks :
       \E level \in {mixer_elem_cb(elem, mask, "")} :
           /\ volumeLevel' = level
           /\ sBuf' = snprintf(MX_STATUS_CHARS, level)
           /\ composed' = snprintf(MX_STATUS_CHARS, level)
           /\ drained' = [NoDrain EXCEPT !.mixer = "ok",
                                         !.cbs = <<<<elem, mask>>>>]
    /\ polled' = Polled(1, "", "", "IN")
    /\ NoRefresh
    /\ pc' = "produced"
    /\ UNCHANGED <<exitCode, timeout, outputFunction, nlData_id,
                   nlData_socket, udevDisplayInfo, sent, sinkRet>>

\* line 848, getStatusInfo(), for one set of readings
ProduceStatus ==
    /\ pc = "status"
    /\ \E rd \in WideReadings :
       \E ex \in ExchangesFor(rd) :
       \E r \in {getStatusInfo(sBuf, rd, nlData_id, wStats_signal, ex)} :
           /\ sBuf' = r.sBuf
           /\ refreshed' = rd
           /\ wStats_signal' = r.signal
           /\ wifi' = [queries |-> r.queries, ex |-> ex,
                       before |-> wStats_signal, outcome |-> r.outcome,
                       recvFailed |-> FALSE]
    /\ pc' = "produced"
    /\ UNCHANGED <<exitCode, timeout, outputFunction, nlData_id,
                   nlData_socket, udevDisplayInfo, volumeLevel, polled,
                   composed, drained, sent, sinkRet>>

ProducerNext ==
    \/ ProduceUdev
    \/ ProduceVolume
    \/ ProduceStatus

ProducerSpec == ProducerInit /\ [][ProducerNext]_vars

\* ---------------------------------------------------------------- claims
\* poll() reported POLLERR or POLLNVAL on some descriptor
PollErr == "ERR" \in {polled.udev, polled.sig, polled.mix}

\* the last iteration dispatched events: poll() reported a ready source,
\* no error and no termination signal
Dispatched ==
    polled.called /\ polled.ret > 0 /\ ~PollErr /\ polled.sig = ""

\* C1: when poll reports a ready source (no POLLERR/POLLNVAL, no signal)
\* and the line composed from the event is not empty, that line is handed
\* to the sink and, the sink succeeding, the next poll uses NOTIFY_TIMEOUT.
C1_EventLineThenTransient ==
    (Dispatched /\ composed # "") =>
        /\ sent # <<>>
        /\ sent[1] = Line("event", composed)
        /\ sinkRet # -1 => (pc = "poll" /\ timeout = NOTIFY_TIMEOUT)

C1_Witness ==
    /\ Dispatched /\ composed # "" /\ drained.udev = "ok"
    /\ polled.timeout = STATUS_TIMEOUT
    /\ sinkRet # -1 /\ pc = "poll" /\ timeout = NOTIFY_TIMEOUT

\* C2: when poll times out, the full periodic status (network,
\* temperature, power, battery, clock) is recomputed and handed to the
\* sink and, the sink succeeding, the next poll uses STATUS_TIMEOUT.
C2_TimeoutThenPeriodic ==
    (polled.called /\ polled.ret = 0) =>
        /\ refreshed \in Readings
        /\ sent # <<>>
        /\ sent[1] = Line("periodic",
                          statusNet(refreshed, nlData_id, wifi.before, wifi.ex).text
                          \o statusTmp(refreshed) \o statusPwr(refreshed)
                          \o statusBat(refreshed) \o getTime(refreshed.clk))
        /\ sinkRet # -1 => (pc = "poll" /\ timeout = STATUS_TIMEOUT)

\* C3 as stated: at every poll call, the first included, the timeout is
\* STATUS_TIMEOUT or NOTIFY_TIMEOUT.
C3_EveryPollPeriodicOrTransient ==
    pc = "poll" => timeout \in {STATUS_TIMEOUT, NOTIFY_TIMEOUT}

\* C3 as amended: the first poll call uses the start value of timeout,
\* 1000 ms, which is neither; every later poll call uses STATUS_TIMEOUT or
\* NOTIFY_TIMEOUT.
C3_FirstPollInitialThenNamed ==
    /\ (pc = "poll" /\ ~polled.called) => timeout = INITIAL_TIMEOUT
    /\ (pc = "poll" /\ polled.called) =>
           timeout \in {STATUS_TIMEOUT, NOTIFY_TIMEOUT}
    /\ polled.called =>
           polled.timeout \in {INITIAL_TIMEOUT, STATUS_TIMEOUT,
                               NOTIFY_TIMEOUT}

C3_Witness ==
    /\ pc = "poll" /\ polled.called /\ polled.timeout = INITIAL_TIMEOUT
    /\ timeout = NOTIFY_TIMEOUT

\* C4: when poll reports the signal descriptor ready, no further poll is
\* made and no event or periodic line is handed to the sink, also when
\* another source is ready; nothing but the closing line follows, and
\* the process ends: main hands the closing line to the sink and returns
\* 0, unless the release of the resources before it kills the process.
C4_SignalOnlyClosingLine ==
    (polled.called /\ polled.ret > 0 /\ polled.sig = "IN") =>
        /\ pc \in {"done", "crashed"}
        /\ pc = "done" =>
              (exitCode = 0 /\ sent = <<Line("closing", ClosingLine)>>)
        /\ pc = "crashed" => sent = <<>>

C4_Witness ==
    /\ polled.called /\ polled.sig = "IN" /\ polled.udev = "IN"
    /\ polled.mix = "IN" /\ drained.udev = "ok" /\ sBuf # ""
    /\ pc = "done" /\ sent = <<Line("closing", ClosingLine)>>

\* C5 as stated: after a failed drain of the device-change source, a
\* failed drain of the mixer source or POLLERR/POLLNVAL on a source's
\* handle, the reactor reaches the next poll call (no signal pending, the
\* sink not failing).
C5_SourceErrorNeverLeaves ==
    (polled.called /\ polled.ret > 0 /\ polled.sig = "" /\ sinkRet # -1
     /\ (drained.udev = "failed" \/ drained.mixer = "failed" \/ PollErr))
        => pc = "poll"

\* C5 as amended: a failed drain of the device-change source or of the
\* mixer source does not end the loop: the source contributes nothing to
\* the line and the iteration goes on as if the source had not been ready
\* (with no contribution at all, into the periodic refresh), the loop
\* being left only if the signal is pending or the sink fails;
\* POLLERR/POLLNVAL on any handle ends the loop.
C5_FailedDrainContinues ==
    /\ (Dispatched /\ sinkRet # -1
        /\ (drained.udev = "failed" \/ drained.mixer = "failed"))
           => pc # "done"
    /\ (Dispatched /\ drained.udev # "ok" /\ drained.mixer # "ok")
           => (composed = "" /\ refreshed \in Readings
               /\ \A k \in 1 .. Len(sent) : sent[k].kind # "event")
    /\ (polled.called /\ PollErr) =>
          (pc \in {"done", "crashed"} /\ \A k \in 1 .. Len(sent) :
                                            sent[k].kind = "closing")

C5_Witness ==
    /\ Dispatched /\ drained.udev = "failed" /\ drained.mixer = "failed"
    /\ pc = "poll" /\ sent[1].kind = "periodic"

\* C6: when the sink reports an error for an event line or a periodic
\* line, the loop is left: no further poll call, timeout not updated;
\* whichever sink is selected (only the dwlb sink ever reports one).
C6_SinkErrorStops ==
    /\ sinkRet = -1 =>
          /\ pc \in {"done", "crashed"}
          /\ timeout = polled.timeout
          /\ pc = "done" => sent[Len(sent)] = Line("closing", ClosingLine)
    /\ outputFunction \in {xorg, text} => sinkRet # -1

C6_Witness ==
    /\ sinkRet = -1 /\ outputFunction = dwlb /\ pc = "done"
    /\ sent[1].kind = "event" /\ polled.timeout = STATUS_TIMEOUT

\* the slots of `info` joined in slot order, from slot i on
RECURSIVE SlotsInOrder(_, _)
SlotsInOrder(info, i) ==
    IF i >= MX_NUMBER_ELEMENTS THEN ""
    ELSE info[i] \o SlotsInOrder(info, i + 1)

\* the last iteration composed its line from a device event alone
UdevLine ==
    /\ Dispatched
    /\ drained.udev = "ok" /\ drained.dev.subsystem # NULL
    /\ drained.mixer # "ok"

\* C7: at the start of every event-dispatch cycle all per-source slots are
\* empty (nothing left over from an earlier cycle, nothing uninitialised),
\* so the line composed for a device event is the one udevStatus composes
\* from empty slots.
C7_SlotsEmptyAtCycleStart ==
    UdevLine =>
        composed = udevStatus("", [i \in Slots |-> ""], drained.dev, 0).sBuf

\* C8: every line handed to the sink, and the line buffer and the volume
\* buffer at all times, hold fewer than MX_STATUS_CHARS characters, so
\* that with the terminator nothing is written past the capacity.
C8_LineFitsCapacity ==
    /\ Len(sBuf) < MX_STATUS_CHARS
    /\ Len(volumeLevel) < MX_STATUS_CHARS
    /\ Len(composed) < MX_STATUS_CHARS
    /\ \A k \in 1 .. Len(sent) : Len(sent[k].line) < MX_STATUS_CHARS

C8_Witness ==
    /\ UdevLine /\ sent[1] = Line("event", composed)
    /\ Len(composed) > 5 * MX_ELEMENT_CHARS
    /\ \E i \in Slots : Len(udevDisplayInfo[i]) >= MX_ELEMENT_CHARS - 1

\* C9: when the fragments total at most MX_STATUS_CHARS - 1 characters,
\* the line is their concatenation in fixed order: for udevStatus the
\* slots 0 .. MX_NUMBER_ELEMENTS - 1, for getStatusInfo network,
\* temperature, power, battery, clock.
C9_ConcatenationInOrder ==
    /\ (UdevLine
        /\ \A i \in Slots : Len(udevDisplayInfo[i]) < MX_ELEMENT_CHARS
        /\ Len(SlotsInOrder(udevDisplayInfo, 0)) < MX_STATUS_CHARS
        /\ composed # "")
          => composed = SlotsInOrder(udevDisplayInfo, 0)
    /\ (refreshed \in Readings /\ wifi.outcome = "returned"
        /\ Len(statusNet(refreshed, nlData_id, wifi.before, wifi.ex).text \o statusTmp(refreshed)
               \o statusPwr(refreshed) \o statusBat(refreshed)
               \o getTime(refreshed.clk)) < MX_STATUS_CHARS)
          => sBuf = statusNet(refreshed, nlData_id, wifi.before, wifi.ex).text \o statusTmp(refreshed)
                    \o statusPwr(refreshed) \o statusBat(refreshed)
                    \o getTime(refreshed.clk)

C9_Witness ==
    /\ UdevLine /\ composed = SlotsInOrder(udevDisplayInfo, 0)
    /\ udevDisplayInfo[0] # "" /\ udevDisplayInfo[2] # ""
    /\ udevDisplayInfo[1] = ""
    /\ polled.timeout = NOTIFY_TIMEOUT

\* the C strings that start at slots i .. k-1 of `info`, joined
RECURSIVE WholeFragments(_, _, _, _)
WholeFragments(info, i, k, tail) ==
    IF i >= k THEN ""
    ELSE udevString(info, i, tail) \o WholeFragments(info, i + 1, k, tail)

\* the first slot at which the cumulative length of the C strings exceeds
\* the capacity MX_STATUS_CHARS - 1; MX_NUMBER_ELEMENTS when none does
RECURSIVE OverflowAt(_, _, _, _)
OverflowAt(info, i, sum, tail) ==
    IF i >= MX_NUMBER_ELEMENTS THEN MX_NUMBER_ELEMENTS
    ELSE IF sum + Len(udevString(info, i, tail)) > MX_STATUS_CHARS - 1
         THEN i
         ELSE OverflowAt(info, i + 1,
                         sum + Len(udevString(info, i, tail)), tail)

\* C10: composition never writes a partial fragment: when appending the
\* string of slot k would take the cumulative length past the capacity,
\* the line is exactly the strings of slots 0 .. k-1, whole, and nothing
\* of slot k or of a later slot.
C10_NoPartialFragment ==
    (UdevLine /\ composed # ""
     /\ OverflowAt(udevDisplayInfo, 0, 0, drained.tail) < MX_NUMBER_ELEMENTS)
        => composed =
              WholeFragments(udevDisplayInfo, 0,
                 OverflowAt(udevDisplayInfo, 0, 0, drained.tail),
                 drained.tail)

\* the overflow case of C10 arises only from slots that no handler wrote:
\* slots holding handler-written fragments never reach the capacity
C10_OverflowOnlyFromUnwrittenSlots ==
    (UdevLine /\ composed # ""
     /\ \A i \in Slots : Len(udevDisplayInfo[i]) < MX_ELEMENT_CHARS)
        => OverflowAt(udevDisplayInfo, 0, 0, drained.tail)
              = MX_NUMBER_ELEMENTS

\* the table entries whose handler udevStatus is to call for dev
HandlersFor(dev) ==
    {i \in 0 .. (Len(udevActions) - 1) :
        dev.action = "change" /\ udevActions[i + 1] = dev.subsystem}

Range(seq) == {seq[k] : k \in 1 .. Len(seq)}

\* the last step ran udevStatus on a record that has a subsystem
UdevCalled == drained.udev = "ok" /\ drained.dev.subsystem # NULL

\* C11: for a record with a subsystem, udevStatus calls a table handler
\* if and only if the action is "change" and the subsystem equals the
\* handler's table entry; when no handler is called (no entry matches, or
\* the action is add or remove) the fallback "<subsystem>: <device>:
\* <action> " is written to the last slot.
C11_HandlerIffChangeAndMatch ==
    UdevCalled =>
        /\ Range(drained.called) = HandlersFor(drained.dev)
        /\ Len(drained.called) = Cardinality(HandlersFor(drained.dev))
        /\ (HandlersFor(drained.dev) = {} /\ refreshed = NoReadings) =>
              /\ drained.written = <<MX_NUMBER_ELEMENTS - 1>>
              /\ udevDisplayInfo[MX_NUMBER_ELEMENTS - 1] =
                    Take(drained.dev.subsystem \o ": "
                         \o drained.dev.sysname \o ": "
                         \o drained.dev.action \o " ",
                         MX_ELEMENT_CHARS - 1)

C11_Witness ==
    /\ UdevCalled /\ drained.dev.subsystem = "foo"
    /\ drained.dev.action = "change" /\ drained.called = <<>>
    /\ udevDisplayInfo[MX_NUMBER_ELEMENTS - 1] = "foo: bar: change "

\* C12 as stated: every call of udevStatus on a received record writes
\* exactly one slot.
C12_ExactlyOneSlotWritten ==
    drained.udev = "ok" => Len(drained.written) = 1

\* C12 as amended: a call of udevStatus on a record that has a subsystem
\* writes exactly one slot, the slot of the handler called or the last
\* slot; a call on a record without subsystem returns -1 and writes none.
C12_OneSlotUnlessNoSubsystem ==
    /\ UdevCalled =>
          /\ Len(drained.written) = 1
          /\ drained.written[1] \in
                Range(drained.called) \cup {MX_NUMBER_ELEMENTS - 1}
    /\ (drained.udev = "ok" /\ drained.dev.subsystem = NULL) =>
          (drained.written = <<>> /\ drained.called = <<>>
           /\ composed = "")

C12_Witness ==
    /\ UdevCalled /\ drained.dev.subsystem = "rfkill"
    /\ drained.dev.soft = NULL /\ drained.called = <<1>>
    /\ drained.written = <<MX_NUMBER_ELEMENTS - 1>>

\* t occurs in s
Contains(s, t) ==
    \E k \in 1 .. (Len(s) - Len(t) + 1) : SubSeq(s, k, k + Len(t) - 1) = t

\* C13: when init_nl80211 fails at any step, no wireless query is ever
\* made, no line carries a wireless fragment and the loop keeps running
\* with the other sources.
C13_FailedInitDisablesWireless ==
    (pc # "start" /\ nlData_socket # "open") =>
        /\ wifi.queries = 0
        /\ pc \notin {"wifi", "crashed"}
        /\ \A k \in 1 .. Len(sent) : ~Contains(sent[k].line, "dBm")

\* C14: a wireless query returns also when NL_CB_FINISH is never
\* delivered: once nl_recvmsgs() has reported an error the process is no
\* longer inside getWifiStatus.
C14_QueryReturns ==
    ~(pc = "wifi" /\ wifi.recvFailed)

\* the signal attribute received last in an exchange, 0 if there is none
RECURSIVE LastSignal(_)
LastSignal(msgs) ==
    IF msgs = <<>> THEN 0
    ELSE LET m == msgs[Len(msgs)]
         IN  IF m.sta /\ m.nested /\ m.sig # -1 THEN int8_t(m.sig)
             ELSE LastSignal(SubSeq(msgs, 1, Len(msgs) - 1))

\* C15: after a wireless query whose exchange ended with NL_CB_FINISH the
\* signal value is the last signal attribute of that exchange, or 0 when
\* the exchange carried none.
C15_SignalOfThisExchange ==
    (wifi.queries > 0 /\ wifi.outcome = "returned" /\ wifi.ex.alloc) =>
        wStats_signal = LastSignal(wifi.ex.msgs)

\* C16: a wireless query whose nlmsg_alloc() or nl_send_auto() fails
\* returns and leaves no "w<index>:<n>dBm " text in the periodic line.
C16_FailedQueryEmptyFragment ==
    (nlData_socket = "open" /\ wifi.queries > 0
     /\ (~wifi.ex.alloc \/ ~wifi.ex.send)) =>
        /\ wifi.outcome = "returned"
        /\ ~Contains(sBuf, "dBm")

\* C17 as stated: a wireless query is made only in an iteration whose
\* poll() returned 0.
C17_QueryOnlyAfterTimeout ==
    wifi.queries > 0 => polled.ret = 0

\* C17 as amended: a wireless query is made only inside the periodic
\* refresh, which runs when poll() returned 0 and also when poll()
\* reported a readable source whose drain left the line empty; an
\* iteration that hands an event line to the sink makes no query.
C17_QueryOnlyInRefresh ==
    /\ wifi.queries > 0 =>
          /\ refreshed \in Readings
          /\ composed = ""
          /\ \A k \in 1 .. Len(sent) : sent[k].kind # "event"
    /\ (\E k \in 1 .. Len(sent) : sent[k].kind = "event") =>
          wifi.queries = 0

C17_Witness ==
    /\ polled.ret = 1 /\ polled.udev = "IN"
    /\ drained.udev = "ok" /\ drained.dev.sysname = BATTERY_NAME
    /\ wifi.queries = 1 /\ wifi.outcome = "returned"
    /\ Len(sent) = 1 /\ sent[1].kind = "periodic"
    /\ Contains(sent[1].line, "dBm")

\* the last step was a call of getStatusInfo that returned
StatusProduced == refreshed # NoReadings /\ wifi.outcome = "returned"

\* C18: in the periodic line a value that is not available (-1) has no
\* fragment: no "tmp:" when the temperature read yields -1, no "bat:"
\* when the battery capacity is -1.
C18_SentinelSuppressesFragment ==
    StatusProduced =>
        /\ refreshed.temp = -1 => ~Contains(sBuf, "tmp:")
        /\ refreshed.capacity = -1 => ~Contains(sBuf, "bat:")

\* the battery fragment for capacity c
BatteryFragment(c) ==
    IF c = -1 THEN ""
    ELSE IF c <= 15 THEN "[!]bat:" \o ToString(c) \o "% "
    ELSE "bat:" \o ToString(c) \o "% "

\* C19: for every capacity c the battery fragment of the periodic line,
\* which stands between the power fragment and the clock, is empty when
\* c = -1, "[!]bat:c% " when c <= 15 and "bat:c% " when c > 15.
C19_BatteryFragment ==
    StatusProduced =>
        sBuf = statusNet(refreshed, nlData_id, wifi.before, wifi.ex).text
               \o statusTmp(refreshed) \o statusPwr(refreshed)
               \o BatteryFragment(refreshed.capacity)
               \o getTime(refreshed.clk)

C19_Witness ==
    /\ StatusProduced /\ refreshed.capacity = 15
    /\ Contains(sBuf, " [!]bat:15% ")

\* the written slots and the five elements of the periodic line are
\* shorter than MX_ELEMENT_CHARS
ElementsFit ==
    /\ \A k \in 1 .. Len(drained.written) :
          Len(udevDisplayInfo[drained.written[k]]) < MX_ELEMENT_CHARS
    /\ StatusProduced =>
          /\ Len(statusNet(refreshed, nlData_id, wifi.before, wifi.ex).text)
                < MX_ELEMENT_CHARS
          /\ Len(statusTmp(refreshed)) < MX_ELEMENT_CHARS
          /\ Len(statusPwr(refreshed)) < MX_ELEMENT_CHARS
          /\ Len(statusBat(refreshed)) < MX_ELEMENT_CHARS
          /\ Len(getTime(refreshed.clk)) < MX_ELEMENT_CHARS

\* the element's name is one of the configured length and its channel
\* values lie within its range
VolumeInRange(e) ==
    /\ Len(e.name) <= 9
    /\ e.has_volume =>
          /\ e.min <= e.volL /\ e.volL <= e.max
          /\ e.volume_joined \/ (e.min <= e.volR /\ e.volR <= e.max)

\* C20 as stated: every fragment is shorter than MX_ELEMENT_CHARS: the
\* written slots, the elements of the periodic line and the volume
\* fragment.
C20_EveryFragmentFits ==
    /\ ElementsFit
    /\ Len(volumeLevel) < MX_ELEMENT_CHARS

\* C20 as amended: the written slots and the elements of the periodic
\* line are shorter than MX_ELEMENT_CHARS; the volume fragment is shorter
\* than MX_STATUS_CHARS, and shorter than MX_ELEMENT_CHARS when the
\* name has at most 9 characters and the channel values are in range.
C20_FragmentsFitButVolume ==
    /\ ElementsFit
    /\ Len(volumeLevel) < MX_STATUS_CHARS
    /\ \A k \in 1 .. Len(drained.cbs) :
          VolumeInRange(drained.cbs[k][1]) =>
              Len(volumeLevel) < MX_ELEMENT_CHARS

C20_Witness ==
    /\ StatusProduced /\ Len(refreshed.ifs) = 5
    /\ Len(statusNet(refreshed, nlData_id, wifi.before, wifi.ex).text)
          = MX_ELEMENT_CHARS - 1

\* the errors main() prints before it returns 1
Misconfigurations ==
    {"MX_NUMBER_ELEMENTS < 1", "Usage", "Invalid socket ID",
     "Could not retrieve XDG_RUNTIME_DIR", "Could not comminicate with dwlb"}

\* the step printed one of these errors
Misconfigured ==
    \E k \in 1 .. Len(sent) :
        sent[k].kind = "stderr" /\ sent[k].line \in Misconfigurations

\* the probe messages among `sent`
Probes == {k \in 1 .. Len(sent) : sent[k].kind \in {"probe", "probe failed"}}

\* C22: main returns 1 exactly when a misconfiguration is found at
\* startup, before the loop: element budget, option, socket number, or
\* the dwlb socket not answering any of the at most 10 probes; a run
\* that reached the loop and from which main returns, returns 0.
C22_ExitCodes ==
    /\ exitCode = 1 <=> Misconfigured
    /\ exitCode = 1 => (pc = "done" /\ ~polled.called)
    /\ Cardinality(Probes) <= DWLB_PROBES
    /\ (Cardinality(Probes) = DWLB_PROBES
        /\ \A k \in Probes : sent[k].kind = "probe failed") => exitCode = 1
    /\ (\E k \in Probes : sent[k].kind = "probe") => exitCode # 1
    /\ (polled.called /\ pc = "done") => exitCode = 0
    /\ pc \in {"poll", "wifi"} => exitCode = -1

C22_Witness ==
    /\ pc = "done" /\ exitCode = 1 /\ Len(sent) = DWLB_PROBES + 1
    /\ sent[DWLB_PROBES].kind = "probe failed"
    /\ sent[Len(sent)].line = "Could not comminicate with dwlb"

\* the last step ran mixer_elem_cb once
VolumeProduced == drained.mixer = "ok" /\ Len(drained.cbs) = 1

\* channel ch ("L" or "R") of element e is muted: its switch is off
Muted(e, ch) ==
    e.has_switch /\ (IF ch = "L" \/ e.switch_joined THEN e.swL ELSE e.swR) = 0

\* the percentage of channel ch within the range of e
Percent(e, ch) ==
    CDiv(100 * ((IF ch = "L" \/ e.volume_joined THEN e.volL ELSE e.volR)
                - e.min),
         e.max - e.min)

ChannelText(e, ch) ==
    (IF Muted(e, ch) THEN "!" ELSE "") \o ToString(Percent(e, ch)) \o "%"

\* C21: for a value event of an element with a volume range, the volume
\* fragment is "name: [!]L%", followed by ":[!]R%" if and only if the
\* channels differ in percentage or in mute state, with "!" exactly for
\* a muted channel and each percentage 100*(vol-min)/(max-min).
C21_VolumeFormat ==
    (VolumeProduced
     /\ drained.cbs[1][2] = SND_CTL_EVENT_MASK_VALUE
     /\ drained.cbs[1][1].has_volume
     /\ drained.cbs[1][1].max > drained.cbs[1][1].min) =>
        volumeLevel =
            drained.cbs[1][1].name \o ": "
            \o ChannelText(drained.cbs[1][1], "L")
            \o (IF Percent(drained.cbs[1][1], "L")
                      # Percent(drained.cbs[1][1], "R")
                   \/ Muted(drained.cbs[1][1], "L")
                      # Muted(drained.cbs[1][1], "R")
                THEN ":" \o ChannelText(drained.cbs[1][1], "R")
                ELSE "")

\* C27: a callback whose mask is not 0 and has not the bit
\* SND_CTL_EVENT_MASK_VALUE leaves the volume fragment as it was (empty,
\* line 799).
C27_OnlyValueEvents ==
    (VolumeProduced
     /\ drained.cbs[1][2] # 0
     /\ (drained.cbs[1][2] \div SND_CTL_EVENT_MASK_VALUE) % 2 = 0) =>
        volumeLevel = ""

\* C28: the netlink socket allocated by init_nl80211 is closed and freed
\* exactly once and never used afterwards: it is never freed a second
\* time by the shutdown code, and every wireless query is made on the
\* open socket (a run that has returned from main has freed it after its
\* last query).
C28_SocketFreedOnce ==
    /\ nlData_socket # "freed twice"
    /\ (wifi.queries > 0 /\ pc # "done") => nlData_socket = "open"

\* the fragment the drain of the last iteration wrote for its device, ""
\* when it wrote none
DrainedFragment ==
    IF drained.udev = "ok" /\ drained.written # <<>>
    THEN LET r == udevStatus("", [i \in Slots |-> ""], drained.dev, 0)
         IN  r.info[r.written[1]]
    ELSE ""

\* C26: when the device-change source is ready and its drain yields a
\* non-empty fragment, a line is handed to the sink in that iteration and
\* contains the fragment, also when the mixer source is ready in the same
\* poll result.
C26_DeviceFragmentEmitted ==
    (Dispatched /\ DrainedFragment # "") =>
        /\ sent # <<>>
        /\ Contains(sent[1].line, DrainedFragment)

\* the only ready event of the last iteration was a "change" record of
\* the battery
BatteryChangeOnly ==
    /\ Dispatched
    /\ polled.udev = "IN" /\ polled.mix = ""
    /\ drained.udev = "ok"
    /\ drained.dev.subsystem = "power_supply"
    /\ drained.dev.action = "change"
    /\ drained.dev.sysname = BATTERY_NAME

\* C25: an iteration whose only ready event is a "change" record of the
\* battery hands no event line to the sink, whatever events came before:
\* its line is the periodic status line and, the sink succeeding, the next
\* poll uses STATUS_TIMEOUT.
C25_BatteryChangeSilent ==
    BatteryChangeOnly =>
        /\ \A k \in 1 .. Len(sent) : sent[k].kind # "event"
        /\ sent # <<>> /\ sent[1].kind = "periodic"
        /\ sinkRet # -1 => (pc = "poll" /\ timeout = STATUS_TIMEOUT)

\* C24: when poll reports a ready source (no error, no signal) and the
\* line composed from the event is empty, the iteration hands exactly one
\* line to the sink, the periodic status line, which is not empty; it
\* hands over no event line, clears every slot and, the sink succeeding,
\* the next poll uses STATUS_TIMEOUT.
C24_EmptyLineRefreshes ==
    (Dispatched /\ composed = "") =>
        /\ sent # <<>>
        /\ sent[1].kind = "periodic" /\ sent[1].line # ""
        /\ \A k \in 1 .. Len(sent) : sent[k].kind # "event"
        /\ \A i \in Slots : udevDisplayInfo[i] = ""
        /\ sinkRet # -1 =>
               (Len(sent) = 1 /\ pc = "poll" /\ timeout = STATUS_TIMEOUT)

\* C23: a poll that was called with NOTIFY_TIMEOUT and timed out is
\* followed by the periodic status line, and the poll after it uses
\* STATUS_TIMEOUT: the loop is never about to poll again with
\* NOTIFY_TIMEOUT.
C23_TransientExpires ==
    (polled.called /\ polled.ret = 0 /\ polled.timeout = NOTIFY_TIMEOUT) =>
        /\ sent # <<>>
        /\ sent[1].kind = "periodic"
        /\ sinkRet # -1 => (pc = "poll" /\ timeout = STATUS_TIMEOUT)

TypeOK ==
    /\ pc \in {"start", "poll", "wifi", "crashed", "done"}
    /\ nlData_socket \in {"none", "freed", "open", "freed twice"}
    /\ timeout \in {INITIAL_TIMEOUT, STATUS_TIMEOUT, NOTIFY_TIMEOUT}
    /\ outputFunction \in {none, xorg, text, dwlb}

====
